---- MODULE Spec2Model ----
(***************************************************************************)
(* A model of the timetable client (pages/index.js and                     *)
(* frontend/pages/index.js): the identity resolver findFaculty with its    *)
(* normalize helper, the bootstrap loader fetchWithRetry, the cache load   *)
(* that the mount effect performs, the handlers of the page (extraction,   *)
(* Clear, logo reset, download) and the calendar sync of                   *)
(* frontend/pages/index.js (handleSync, performSync, the poll timer).      *)
(*                                                                         *)
(* A JavaScript string is a sequence of one-character strings.             *)
(***************************************************************************)
EXTENDS Integers, Sequences, FiniteSets, TLC

VARIABLES
    \* ---- normalize exercised on its own
    x,              \* the string handed to normalize
    nx,             \* normalize(x), once computed
    nnx,            \* normalize(normalize(x)), once computed
    npc,            \* "start" | "once" | "twice"
    \* ---- findFaculty exercised by the class-card render
    teacherName,    \* cls.teacher of the row being rendered
    fac,            \* what findFaculty returned for it
    pass,           \* which return statement of findFaculty produced fac
    renderThrew,    \* TRUE when the class-card render threw
    rpc,            \* "start" | "rendered"
    \* ---- the page (React state, localStorage, the bootstrap loader)
    faculty,        \* useState([]) : the directory, in directory order
    metadata,       \* useState({teachers: [], ...}) : metadata.teachers
    schedule,       \* useState(null)
    rollNumber,     \* useState('')
    error,          \* useState('')
    cacheSlot,      \* localStorage['timetable_cache'], Absent when not set
    mounted,        \* TRUE once the mount effect has run
    cached,         \* the mount effect's const cached = localStorage.getItem(...)
    fpc,            \* fetchWithRetry: "idle" | "fetching" | "waiting" | "returned" | "thrown"
    retries,        \* the retries parameter of the current fetchWithRetry frame
    backoff,        \* the backoff parameter of the current fetchWithRetry frame
    requests,       \* number of fetch() calls issued so far
    delays,         \* the delays handed to setTimeout, in order
    outcomes,       \* the outcome of each finished attempt, in order
    \* ---- the user's operations on the page
    entry,          \* which page file runs: "pages" | "frontend"
    loading,        \* useState(false)
    parses,         \* number of POST /parse requests in flight
    gestures,       \* how many more gestures the user makes in this run
    icsPending,     \* number of POST /download-ics requests in flight
    \* ---- calendar sync (frontend/pages/index.js)
    syncStatus,     \* useState('')
    syncCalls,      \* number of calls of handleSync so far
    sessions,       \* one record for each call of handleSync that passed its guard
    windows         \* the windows window.open returned: "open" | "closed"

normVars == <<x, nx, nnx, npc>>
resVars  == <<teacherName, fac, pass, renderThrew, rpc>>
refVars  == <<faculty, metadata>>
pageVars == <<schedule, rollNumber, error, cacheSlot, mounted, cached>>
loadVars == <<fpc, retries, backoff, requests, delays, outcomes>>
userVars == <<entry, gestures, loading, parses, icsPending>>
syncVars == <<syncStatus, syncCalls, sessions, windows>>
vars     == <<normVars, resVars, refVars, pageVars, loadVars, userVars, syncVars>>

(***************************************************************************)
(* Strings                                                                 *)
(***************************************************************************)
LowerLetters == {"a", "b", "d", "e", "k", "m", "r", "s", "y"}
Whitespace   == {" ", "\t"}

IsSpace(c) == c \in Whitespace
IsLower(c) == c \in LowerLetters

\* String.prototype.toLowerCase, one character
toLowerChar(c) ==
    CASE c = "A" -> "a"
      [] c = "B" -> "b"
      [] c = "D" -> "d"
      [] c = "K" -> "k"
      [] c = "S" -> "s"
      [] OTHER   -> c

toLowerCase(s) == [i \in 1..Len(s) |-> toLowerChar(s[i])]

Drop(s, n) == SubSeq(s, n + 1, Len(s))

startsWith(s, p) == Len(p) <= Len(s) /\ SubSeq(s, 1, Len(p)) = p

includes(s, p) ==
    \E i \in 0..(Len(s) - Len(p)) : SubSeq(s, i + 1, i + Len(p)) = p

\* length of the maximal whitespace run at the start of s
RECURSIVE SpaceRun(_)
SpaceRun(s) ==
    IF Len(s) > 0 /\ IsSpace(s[1]) THEN 1 + SpaceRun(Tail(s)) ELSE 0

\* the honorific alternation of the first replace, in the regex's order
Honorifics ==
    << <<"d","r">>, <<"m","r">>, <<"m","s">>, <<"m","r","s">>,
       <<"s","y","e","d">>, <<"s">> >>

\* (\s+|$) tried at offset n of s: the offset after the match, or -1
SpaceOrEnd(s, n) ==
    LET w == SpaceRun(Drop(s, n))
    IN  IF w > 0 THEN n + w ELSE IF n = Len(s) THEN n ELSE -1

\* \.?(\s+|$) tried at offset n of s: the period is taken first and given
\* back when the rest does not match
AfterTitle(s, n) ==
    LET withDot == IF n < Len(s) /\ s[n + 1] = "." THEN SpaceOrEnd(s, n + 1) ELSE -1
    IN  IF withDot >= 0 THEN withDot ELSE SpaceOrEnd(s, n)

\* length of the match of /^(dr|mr|ms|mrs|syed|s)\.?(\s+|$)/ on s, 0 if none
RECURSIVE TitleMatch(_, _)
TitleMatch(s, k) ==
    IF k > Len(Honorifics) THEN 0
    ELSE LET h == Honorifics[k]
             e == IF startsWith(s, h) THEN AfterTitle(s, Len(h)) ELSE -1
         IN  IF e >= 0 THEN e ELSE TitleMatch(s, k + 1)

\* .replace(/^(dr|mr|ms|mrs|syed|s)\.?(\s+|$)/, '')
stripTitle(s) == Drop(s, TitleMatch(s, 1))

\* .replace(/[^a-z\s]/g, ' ')
replaceNonAlpha(s) ==
    [i \in 1..Len(s) |-> IF IsLower(s[i]) \/ IsSpace(s[i]) THEN s[i] ELSE " "]

\* .replace(/\s+/g, ' ')
RECURSIVE collapseSpaces(_)
collapseSpaces(s) ==
    IF Len(s) = 0 THEN <<>>
    ELSE IF IsSpace(s[1]) THEN <<" ">> \o collapseSpaces(Drop(s, SpaceRun(s)))
    ELSE <<s[1]>> \o collapseSpaces(Tail(s))

\* .trim()
RECURSIVE trimEnd(_)
trimEnd(s) ==
    IF Len(s) > 0 /\ IsSpace(s[Len(s)]) THEN trimEnd(SubSeq(s, 1, Len(s) - 1)) ELSE s

trim(s) == trimEnd(Drop(s, SpaceRun(s)))

normalize(n) ==
    trim(collapseSpaces(replaceNonAlpha(stripTitle(toLowerCase(n)))))

\* String.prototype.split(/\s+/)
RECURSIVE split(_)
split(s) ==
    LET ws == {i \in 1..Len(s) : IsSpace(s[i])}
    IN  IF ws = {} THEN <<s>>
        ELSE LET i == CHOOSE j \in ws : \A k \in ws : j <= k
                 rest == Drop(s, i - 1)
             IN  <<SubSeq(s, 1, i - 1)>> \o split(Drop(rest, SpaceRun(rest)))

\* Array.prototype.filter(p => p.length >= 1)
nonEmptyParts(parts) == SelectSeq(parts, LAMBDA p : Len(p) >= 1)

(***************************************************************************)
(* findFaculty                                                             *)
(***************************************************************************)
MinMatched       == 2      \* matchedCount >= 2
RatioNum         == 7      \* matchedCount / nameParts.length >= 0.7
RatioDen         == 10
SubstringMinLen  == 4      \* lower.length > 4

Null == [kind |-> "null"]

\* a find that returns the last hit instead of the first
findLast(hits) ==
    IF hits = {} THEN 0 ELSE CHOOSE i \in hits : \A j \in hits : j <= i

\* Array.prototype.find, given the indexes whose element satisfies the
\* predicate: the first of them, 0 if there is none
find(hits) ==
    IF hits = {} THEN 0 ELSE CHOOSE i \in hits : \A j \in hits : i <= j

\* f => normalize(f.name) === lower
exactMatch(f, lower) == normalize(f.name) = lower

\* a part match that treats a one-letter part like any other part
isPartMatchNoInitials(p, fn, fnParts) ==
    (\E i \in DOMAIN fnParts : fnParts[i] = p) \/ includes(fn, p)

\* a part match that takes a longer part only as a whole word of the record
isPartMatchWholeWords(p, fn, fnParts) ==
    IF Len(p) = 1
    THEN \E i \in DOMAIN fnParts : startsWith(fnParts[i], p)
    ELSE \E i \in DOMAIN fnParts : fnParts[i] = p

\* p.length === 1 ? fnParts.some(fnp => fnp.startsWith(p))
\*                : fnParts.some(fnp => fnp === p) || fn.includes(p)
isPartMatch(p, fn, fnParts) ==
    IF Len(p) = 1
    THEN \E i \in DOMAIN fnParts : startsWith(fnParts[i], p)
    ELSE (\E i \in DOMAIN fnParts : fnParts[i] = p) \/ includes(fn, p)

\* nameParts.forEach(p => { if (isPartMatch) matchedCount++; })
RECURSIVE countMatches(_, _, _)
countMatches(nameParts, fn, fnParts) ==
    IF nameParts = <<>> THEN 0
    ELSE (IF isPartMatch(Head(nameParts), fn, fnParts) THEN 1 ELSE 0)
         + countMatches(Tail(nameParts), fn, fnParts)

matchedCount(f, nameParts) ==
    LET fn == normalize(f.name)
    IN  countMatches(nameParts, fn, split(fn))

\* an acceptance rule whose ratio test is 0.6 instead of 0.7
acceptsLooseRatio(m, n) ==
    \/ m = n
    \/ m >= MinMatched /\ 10 * m >= 6 * n

\* if (matchedCount === nameParts.length) return true;
\* if (matchedCount >= 2 && matchedCount / nameParts.length >= 0.7) return true;
accepts(m, n) ==
    \/ m = n
    \/ m >= MinMatched /\ RatioDen * m >= RatioNum * n

tokenMatch(f, nameParts) == accepts(matchedCount(f, nameParts), Len(nameParts))

substringMatch(f, lower) == includes(normalize(f.name), lower)

\* a known-teacher test that compares the raw metadata entry
isKnownRaw(teachers, lower) == \E i \in DOMAIN teachers : teachers[i] = lower

\* metadata.teachers.some(t => normalize(t) === lower)
isKnown(teachers, lower) == \E i \in DOMAIN teachers : normalize(teachers[i]) = lower

placeholder(name, known) ==
    [kind |-> "placeholder",
     name |-> name,
     designation |-> IF known THEN "Faculty" ELSE "Instructor",
     department |-> "University Faculty",
     email |-> "", phone |-> "", photo_url |-> "",
     isPlaceholder |-> TRUE]

\* the directory record at index i: the object find returned
directoryRecord(F, i) == [kind |-> "record", index |-> i, name |-> F[i].name]

\* a findFaculty whose token pass runs before its exact pass
resolveTokenFirst(name, F, teachers) ==
    IF name = <<>> THEN [pass |-> "falsy", value |-> Null]
    ELSE
    LET lower     == normalize(name)
        nameParts == nonEmptyParts(split(lower))
        exact     == find({i \in DOMAIN F : exactMatch(F[i], lower)})
        token     == find({i \in DOMAIN F : tokenMatch(F[i], nameParts)})
        substr    == IF Len(lower) > SubstringMinLen
                     THEN find({i \in DOMAIN F : substringMatch(F[i], lower)})
                     ELSE 0
    IN  IF lower = <<>> THEN [pass |-> "empty", value |-> Null]
        ELSE IF token # 0 THEN [pass |-> "token", value |-> directoryRecord(F, token)]
        ELSE IF exact # 0 THEN [pass |-> "exact", value |-> directoryRecord(F, exact)]
        ELSE IF substr # 0 THEN [pass |-> "substring", value |-> directoryRecord(F, substr)]
        ELSE [pass |-> "placeholder", value |-> placeholder(name, isKnown(teachers, lower))]

\* findFaculty, with the return statement that produced the value
resolve(name, F, teachers) ==
    IF name = <<>> THEN [pass |-> "falsy", value |-> Null]
    ELSE
    LET lower     == normalize(name)
        nameParts == nonEmptyParts(split(lower))
        exact     == find({i \in DOMAIN F : exactMatch(F[i], lower)})
        token     == find({i \in DOMAIN F : tokenMatch(F[i], nameParts)})
        substr    == IF Len(lower) > SubstringMinLen
                     THEN find({i \in DOMAIN F : substringMatch(F[i], lower)})
                     ELSE 0
    IN  IF lower = <<>> THEN [pass |-> "empty", value |-> Null]
        ELSE IF exact # 0 THEN [pass |-> "exact", value |-> directoryRecord(F, exact)]
        ELSE IF token # 0 THEN [pass |-> "token", value |-> directoryRecord(F, token)]
        ELSE IF substr # 0 THEN [pass |-> "substring", value |-> directoryRecord(F, substr)]
        ELSE [pass |-> "placeholder", value |-> placeholder(name, isKnown(teachers, lower))]

findFaculty(name, F, teachers) == resolve(name, F, teachers).value

(***************************************************************************)
(* JSON text of the cache slot and the schedules it can hold               *)
(***************************************************************************)
NoItem  == <<>>             \* getItem returns null: the key is not set
Item(t) == <<t>>            \* the key holds the text t

Snapshot(roll) == [kind |-> "snapshot", roll_number |-> roll]

Snapshots == {Snapshot("21P-0001"), Snapshot("22P-0002"), Snapshot("")}

\* JSON.stringify
JSONstringify(v) ==
    IF v = Null THEN "null"
    ELSE IF v.roll_number = "" THEN "{\"weekly_schedule\":[]}"
    ELSE IF v.roll_number = "21P-0001" THEN "{\"roll_number\":\"21P-0001\"}"
    ELSE "{\"roll_number\":\"22P-0002\"}"

CorruptTexts == {"{bad", "undefined"}

SlotTexts == {JSONstringify(v) : v \in Snapshots \cup {Null}} \cup CorruptTexts \cup {""}

\* JSON.parse: [ok |-> TRUE, value |-> v], or [ok |-> FALSE] when it throws
JSONparse(t) ==
    IF \E v \in Snapshots \cup {Null} : JSONstringify(v) = t
    THEN [ok |-> TRUE, value |-> CHOOSE v \in Snapshots \cup {Null} : JSONstringify(v) = t]
    ELSE [ok |-> FALSE]

(***************************************************************************)
(* Inputs                                                                  *)
(***************************************************************************)
MaxPieces      == 4     \* pieces in a string handed to normalize on its own
MaxQueryTokens == 4     \* tokens in a teacher name built from TokenPool
MaxDir         == 2     \* records in the directory

SeqsUpTo(S, n) == UNION {[1..k -> S] : k \in 0..n}

RECURSIVE Flatten(_)
Flatten(ss) == IF ss = <<>> THEN <<>> ELSE Head(ss) \o Flatten(Tail(ss))

RECURSIVE JoinSpace(_)
JoinSpace(ts) ==
    IF Len(ts) = 0 THEN <<>>
    ELSE IF Len(ts) = 1 THEN ts[1]
    ELSE ts[1] \o <<" ">> \o JoinSpace(Tail(ts))

PiecePool ==
    { <<"d","r">>, <<"m","r">>, <<"m","s">>, <<"m","r","s">>, <<"s","y","e","d">>,
      <<"s">>, <<"a">>, <<"S">>, <<" ">>, <<"\t">>, <<".">>, <<"5">> }

RawStrings == {Flatten(ps) : ps \in SeqsUpTo(PiecePool, MaxPieces)}

TokenPool == { <<"a">>, <<"k">>, <<"a","k">> }

TokenQueries == {JoinSpace(ts) : ts \in SeqsUpTo(TokenPool, MaxQueryTokens) \ {<<>>}}

NoisyInputs ==
    { <<>>,
      <<"D","r",".">>,
      <<"5">>,
      <<"A","."," ","K">>,
      <<"D","r","."," ","A","k","5">>,
      <<" ","s"," ","a","k">>,
      <<"S","."," ","K","a">>,
      <<"B","a","k">>,
      <<"a","k"," ","k","a">> }

TeacherNames == TokenQueries \cup NoisyInputs

\* directory names as the backend sends them; each keeps a letter when normalized
NamePool ==
    { <<"A"," ","K">>,
      <<"D","r","."," ","B","a","k">>,
      <<"A","k"," ","K","a">>,
      <<"A","k"," ","A","k"," ","A">> }

Directories == {[i \in DOMAIN ns |-> [name |-> ns[i]]] : ns \in SeqsUpTo(NamePool, MaxDir)}

TeacherLists ==
    { <<>>,
      << <<"D","r","."," ","K">>, <<"k"," ","k">>, <<"s"," ","a","k">> >> }

\* the bootstrap bodies the backend can answer with; a missing field is <<>>
Payloads ==
    { [kind |-> "object", faculty |-> <<F>>, metadata |-> <<T>>]
        : F \in {<< >>, << [name |-> <<"A","k">>] >>}, T \in {<< <<"D","r","."," ","K">> >>} }
    \cup { [kind |-> "object", faculty |-> <<>>, metadata |-> <<>>], Null }

(***************************************************************************)
(* State machine                                                           *)
(***************************************************************************)
\* the two page files of the repository
Entries == {"pages", "frontend"}

\* the user makes one of the gestures left to this run
gesture ==
    /\ mounted
    /\ gestures > 0
    /\ gestures' = gestures - 1

InitialRetries == 3       \* retries = 3
InitialBackoff == 1000    \* backoff = 1000

\* a message nobody can see
ConnectErrorEmpty == ""

ConnectError == "Unable to connect to service. Please refresh in a moment."

\* a retry test that also retries when no retries are left
canRetryOffByOne(r) == r >= 0

\* if (retries > 0)
canRetry(r) == r > 0

\* a backoff that doubles
nextBackoffDouble(b) == b * 2

\* backoff * 1.5 (exact on 1000, 1500 and 2250, the only values it is applied to)
nextBackoff(b) == (b * 3) \div 2

PageInit ==
    /\ schedule = Null
    /\ rollNumber = ""
    /\ error = ""
    /\ faculty = <<>>
    /\ metadata = [teachers |-> <<>>]
    /\ mounted = FALSE
    /\ cached = NoItem
    /\ fpc = "idle"
    /\ retries = InitialRetries
    /\ backoff = InitialBackoff
    /\ requests = 0
    /\ delays = <<>>
    /\ outcomes = <<>>

\* nothing requested by the user yet
UserIdle == loading = FALSE /\ parses = 0 /\ icsPending = 0
SyncIdle == syncStatus = "" /\ syncCalls = 0 /\ sessions = <<>> /\ windows = <<>>

NormIdle == x = <<>> /\ nx = <<>> /\ nnx = <<>> /\ npc = "off"
ResIdle  == teacherName = <<>> /\ fac = Null /\ pass = "none" /\ renderThrew = FALSE /\ rpc = "off"

\* the page before the mount effect has run, over every content of the slot
Init ==
    /\ PageInit
    /\ cacheSlot \in {NoItem} \cup {Item(t) : t \in SlotTexts}
    /\ entry \in Entries
    /\ gestures = 0
    /\ UserIdle
    /\ SyncIdle
    /\ NormIdle
    /\ ResIdle

\* a catch block that leaves the slot as it is
onParseErrorKeep == UNCHANGED <<cacheSlot, schedule, rollNumber>>

\* catch (e) { localStorage.removeItem('timetable_cache'); }
onParseError ==
    /\ cacheSlot' = NoItem
    /\ UNCHANGED <<schedule, rollNumber>>

\* the cache load of the mount effect
cacheLoad ==
    /\ cached' = cacheSlot
    /\ IF cacheSlot = NoItem \/ cacheSlot = Item("")
       THEN UNCHANGED <<schedule, rollNumber, cacheSlot>>
       ELSE LET parsed == JSONparse(cacheSlot[1])
            IN  IF ~parsed.ok
                THEN onParseError
                ELSE IF parsed.value = Null
                THEN \* setSchedule(null), then data.roll_number throws
                     /\ schedule' = Null
                     /\ cacheSlot' = NoItem
                     /\ UNCHANGED rollNumber
                ELSE /\ schedule' = parsed.value
                     /\ rollNumber' = IF parsed.value.roll_number # ""
                                      THEN parsed.value.roll_number
                                      ELSE rollNumber
                     /\ UNCHANGED cacheSlot

\* fetch(url, options) is called: one more request is in flight
issueFetch ==
    /\ fpc' = "fetching"
    /\ requests' = requests + 1

\* useEffect(() => {...}, []): the cache load, then loadBootstrapData()
Mount ==
    /\ ~mounted
    /\ mounted' = TRUE
    /\ cacheLoad
    /\ issueFetch
    /\ UNCHANGED <<retries, backoff, delays, outcomes>>
    /\ UNCHANGED <<error, refVars, normVars, resVars, userVars, syncVars>>

\* the continuation of loadBootstrapData after fetchWithRetry returned data
publish(data) ==
    IF data = Null
    THEN \* data.faculty throws a TypeError, caught by loadBootstrapData
         /\ error' = ConnectError
         /\ UNCHANGED refVars
    ELSE /\ faculty' = IF data.faculty # <<>> THEN data.faculty[1] ELSE faculty
         /\ metadata' = IF data.metadata # <<>>
                        THEN [teachers |-> data.metadata[1]]
                        ELSE metadata
         /\ UNCHANGED error

\* the attempt in flight succeeds: res.ok and res.json() resolves to data
FetchSucceeds ==
    /\ fpc = "fetching"
    /\ \E data \in Payloads :
        /\ fpc' = "returned"
        /\ outcomes' = Append(outcomes, "ok")
        /\ publish(data)
    /\ UNCHANGED <<retries, backoff, requests, delays>>
    /\ UNCHANGED <<schedule, rollNumber, cacheSlot, mounted, cached, normVars, resVars, userVars, syncVars>>

FailureKinds == {"transport", "status", "body"}

\* a loader that gives up at once when the body of a response cannot be parsed
FetchFailsBodyFatal ==
    /\ fpc = "fetching"
    /\ \E kind \in FailureKinds :
        /\ outcomes' = Append(outcomes, kind)
        /\ IF canRetry(retries) /\ kind # "body"
           THEN /\ fpc' = "waiting"
                /\ delays' = Append(delays, backoff)
                /\ UNCHANGED error
           ELSE /\ fpc' = "thrown"
                /\ error' = ConnectError
                /\ UNCHANGED delays
    /\ UNCHANGED <<retries, backoff, requests>>
    /\ UNCHANGED <<schedule, rollNumber, cacheSlot, mounted, cached, refVars, normVars, resVars, userVars, syncVars>>

\* the attempt in flight fails: fetch rejects, !res.ok, or res.json() rejects
FetchFails ==
    /\ fpc = "fetching"
    /\ \E kind \in FailureKinds :
        /\ outcomes' = Append(outcomes, kind)
        /\ IF canRetry(retries)
           THEN \* setTimeout(r, backoff)
                /\ fpc' = "waiting"
                /\ delays' = Append(delays, backoff)
                /\ UNCHANGED error
           ELSE \* throw err, caught by loadBootstrapData
                /\ fpc' = "thrown"
                /\ error' = ConnectError
                /\ UNCHANGED delays
    /\ UNCHANGED <<retries, backoff, requests>>
    /\ UNCHANGED <<schedule, rollNumber, cacheSlot, mounted, cached, refVars, normVars, resVars, userVars, syncVars>>

\* the backoff timer fires: fetchWithRetry(url, options, retries - 1, backoff * 1.5)
BackoffElapses ==
    /\ fpc = "waiting"
    /\ retries' = retries - 1
    /\ backoff' = nextBackoff(backoff)
    /\ issueFetch
    /\ UNCHANGED <<delays, outcomes>>
    /\ UNCHANGED <<pageVars, refVars, normVars, resVars, userVars, syncVars>>

Next ==
    \/ Mount
    \/ FetchSucceeds
    \/ FetchFails
    \/ BackoffElapses

Spec == Init /\ [][Next]_vars

\* the network answers every request and every timer fires
FairSpec ==
    /\ Spec
    /\ WF_vars(Mount)
    /\ WF_vars(FetchSucceeds \/ FetchFails)
    /\ WF_vars(BackoffElapses)

(***************************************************************************)
(* The user's operations: roll number, extraction, clear, reset, download  *)
(***************************************************************************)
RollNumberError == "Please enter a Roll Number."
TimetableError  == "Please upload the Timetable PDF or use the official one."
DatesheetError  == "Please upload the Datesheet PDF or use the official one."

FetchError  == "Failed to fetch"                  \* err.message when fetch rejects
JSONError   == "Unexpected end of JSON input"     \* err.message when res.json() rejects
StatusText  == "Internal Server Error"            \* res.statusText
ParseDetail == "Roll number not found"            \* the detail of an error body

\* what the roll number input can be set to
TypedRolls == {"", "21P-0001"}

\* the schedules POST /parse answers with
ParseBodies == {s \in Snapshots : s.roll_number # ""}

\* the file checks of handleExtract; the file inputs and the toggles are
\* the user's to set and are not tracked, so each check can go either way
FileChecks == {"ready", "timetable", "datesheet"}

\* onChange={(e) => setRollNumber(e.target.value)}
TypeRollNumber ==
    /\ gesture
    /\ \E v \in TypedRolls :
        /\ v # rollNumber
        /\ rollNumber' = v
    /\ UNCHANGED <<schedule, error, cacheSlot, mounted, cached>>
    /\ UNCHANGED <<entry, loading, parses, icsPending>>
    /\ UNCHANGED <<refVars, loadVars, syncVars, normVars, resVars>>

\* the checks handleExtract makes before it sends anything: "" when they pass
validationError(files) ==
    IF rollNumber = "" THEN RollNumberError
    ELSE IF entry = "frontend" /\ files = "timetable" THEN TimetableError
    ELSE IF entry = "frontend" /\ files = "datesheet" THEN DatesheetError
    ELSE ""

\* const handleExtract = async () => {...}, up to the await of fetch
handleExtract ==
    /\ \E files \in FileChecks :
        LET problem == validationError(files)
        IN  IF problem # ""
            THEN /\ error' = problem
                 /\ UNCHANGED <<schedule, loading, parses>>
            ELSE /\ loading' = TRUE
                 /\ error' = ""
                 /\ schedule' = Null
                 /\ parses' = parses + 1
    /\ UNCHANGED <<rollNumber, cacheSlot, mounted, cached, entry, icsPending>>
    /\ UNCHANGED <<refVars, loadVars, syncVars, normVars, resVars>>

\* <button onClick={handleExtract} disabled={loading}>
ClickExtract ==
    /\ gesture
    /\ ~loading
    /\ handleExtract

\* onKeyPress={(e) => e.key === 'Enter' && handleExtract()}
PressEnter ==
    /\ gesture
    /\ entry = "pages"
    /\ handleExtract

\* the message of the Error thrown for a response that is not ok
parseFailure(errorMsg) ==
    IF entry = "frontend" THEN "Failed to parse schedule: " \o errorMsg ELSE errorMsg

\* how a POST /parse can fail: fetch rejects, !res.ok with or without a
\* detail in the body, or res.json() rejects
ParseFailures ==
    { [kind |-> "transport"], [kind |-> "body"],
      [kind |-> "status", detail |-> ""], [kind |-> "status", detail |-> ParseDetail] }

parseErrorMessage(f) ==
    IF f.kind = "transport" THEN FetchError
    ELSE IF f.kind = "body" THEN JSONError
    ELSE parseFailure(IF f.detail # "" THEN f.detail ELSE StatusText)

\* res.ok: setSchedule(data); localStorage.setItem('timetable_cache', ...)
ParseSucceeds ==
    /\ parses > 0
    /\ \E data \in ParseBodies :
        /\ schedule' = data
        /\ cacheSlot' = Item(JSONstringify(data))
    /\ loading' = FALSE
    /\ parses' = parses - 1
    /\ UNCHANGED <<rollNumber, error, mounted, cached, entry, gestures, icsPending>>
    /\ UNCHANGED <<refVars, loadVars, syncVars, normVars, resVars>>

\* a catch block that also drops the cached schedule
ParseFailsClearing ==
    /\ parses > 0
    /\ \E f \in ParseFailures : error' = parseErrorMessage(f)
    /\ loading' = FALSE
    /\ parses' = parses - 1
    /\ cacheSlot' = NoItem
    /\ UNCHANGED <<schedule, rollNumber, mounted, cached, entry, gestures, icsPending>>
    /\ UNCHANGED <<refVars, loadVars, syncVars, normVars, resVars>>

\* catch (err) { setError(err.message); } finally { setLoading(false); }
ParseFails ==
    /\ parses > 0
    /\ \E f \in ParseFailures : error' = parseErrorMessage(f)
    /\ loading' = FALSE
    /\ parses' = parses - 1
    /\ UNCHANGED <<schedule, rollNumber, cacheSlot, mounted, cached, entry, gestures, icsPending>>
    /\ UNCHANGED <<refVars, loadVars, syncVars, normVars, resVars>>

\* a Clear button that empties the slot and leaves the schedule displayed
ClickClearSlotOnly ==
    /\ gesture
    /\ schedule # Null
    /\ cacheSlot' = NoItem
    /\ UNCHANGED <<schedule, rollNumber, error, mounted, cached>>
    /\ UNCHANGED <<entry, loading, parses, icsPending>>
    /\ UNCHANGED <<refVars, loadVars, syncVars, normVars, resVars>>

\* the Clear button of the results header
ClickClear ==
    /\ gesture
    /\ schedule # Null
    /\ cacheSlot' = NoItem
    /\ schedule' = Null
    /\ UNCHANGED <<rollNumber, error, mounted, cached>>
    /\ UNCHANGED <<entry, loading, parses, icsPending>>
    /\ UNCHANGED <<refVars, loadVars, syncVars, normVars, resVars>>

\* a logo link that also drops the faculty directory
ClickLogoResetAll ==
    /\ gesture
    /\ entry = "pages"
    /\ cacheSlot' = NoItem
    /\ schedule' = Null
    /\ error' = ""
    /\ rollNumber' = ""
    /\ faculty' = <<>>
    /\ UNCHANGED <<mounted, cached, metadata>>
    /\ UNCHANGED <<entry, loading, parses, icsPending>>
    /\ UNCHANGED <<loadVars, syncVars, normVars, resVars>>

\* the logo link of pages/index.js
ClickLogo ==
    /\ gesture
    /\ entry = "pages"
    /\ cacheSlot' = NoItem
    /\ schedule' = Null
    /\ error' = ""
    /\ rollNumber' = ""
    /\ UNCHANGED <<mounted, cached>>
    /\ UNCHANGED <<entry, loading, parses, icsPending>>
    /\ UNCHANGED <<refVars, loadVars, syncVars, normVars, resVars>>

\* const handleDownloadICS = async () => {...}, up to the await of fetch
handleDownloadICS ==
    /\ gesture
    /\ icsPending' = IF schedule = Null THEN icsPending ELSE icsPending + 1
    /\ UNCHANGED <<entry, loading, parses>>
    /\ UNCHANGED <<pageVars, refVars, loadVars, syncVars, normVars, resVars>>

\* the download request is answered: a file is saved or console.error is called
DownloadResponds ==
    /\ icsPending > 0
    /\ icsPending' = icsPending - 1
    /\ UNCHANGED <<entry, gestures, loading, parses>>
    /\ UNCHANGED <<pageVars, refVars, loadVars, syncVars, normVars, resVars>>

(***************************************************************************)
(* Calendar sync: handleSync and performSync of frontend/pages/index.js    *)
(***************************************************************************)
AuthCheckError == "Failed to check auth status"
AuthUrl        == "https://accounts.example/o/oauth2/auth"
AuthBodyError  == "oauth_not_configured"      \* the error field of an auth body
SyncDetail     == "Calendar API error"        \* the detail of a sync error body
Undefined      == "undefined"                 \* `${undefined}`

\* setSyncStatus(`error:${message}`)
errorStatus(message) == "error:" \o message

\* the JSON bodies GET /auth/url answers with; a missing field is ""
AuthBodies ==
    [authenticated : BOOLEAN, url : {"", AuthUrl}, error : {"", AuthBodyError}]

\* the answers to the first GET /auth/url: fetch rejects, !res.ok,
\* res.json() rejects, or a body
AuthReplies ==
    {[kind |-> "transport"], [kind |-> "status"], [kind |-> "body"]}
    \cup {[kind |-> "ok", body |-> b] : b \in AuthBodies}

\* the answers to the GET /auth/url of the timer callback, which does not
\* read res.ok: fetch rejects, res.json() rejects, or a body under any status
RecheckReplies ==
    {[kind |-> "transport"], [kind |-> "body"]}
    \cup {[kind |-> "answer", body |-> b] : b \in AuthBodies}

\* the answers to POST /sync: fetch rejects, or a response with a status
\* class and a body that is JSON (detail "" when the field is missing) or not
SyncReplies ==
    {[kind |-> "transport"]}
    \cup {[kind |-> k, json |-> FALSE] : k \in {"ok", "unauthorized", "status"}}
    \cup {[kind |-> k, json |-> TRUE, detail |-> d]
            : k \in {"ok", "unauthorized", "status"}, d \in {"", SyncDetail}}

\* the session a call of handleSync starts: its closure holds the schedule
\* of the render that made the handler
NewSession(s) ==
    [pc |-> "checking", schedule |-> s, popup |-> 0, log |-> <<"auth">>, result |-> ""]

\* a handler without the guard on the schedule
handleSyncUnguarded ==
    /\ gesture
    /\ entry = "frontend"
    /\ syncCalls' = syncCalls + 1
    /\ syncStatus' = "syncing"
    /\ sessions' = Append(sessions, NewSession(schedule))
    /\ UNCHANGED windows
    /\ UNCHANGED <<entry, loading, parses, icsPending>>
    /\ UNCHANGED <<pageVars, refVars, loadVars, normVars, resVars>>

\* const handleSync = async () => {...}, up to the await of fetch
handleSync ==
    /\ gesture
    /\ entry = "frontend"
    /\ syncCalls' = syncCalls + 1
    /\ IF schedule = Null
       THEN UNCHANGED <<syncStatus, sessions>>
       ELSE /\ syncStatus' = "syncing"
            /\ sessions' = Append(sessions, NewSession(schedule))
    /\ UNCHANGED windows
    /\ UNCHANGED <<entry, loading, parses, icsPending>>
    /\ UNCHANGED <<pageVars, refVars, loadVars, normVars, resVars>>

\* session i goes on at pc, having logged events
goOn(i, pc, events) ==
    sessions' = [sessions EXCEPT ![i] = [@ EXCEPT !.pc = pc, !.log = @ \o events]]

\* session i sets its last status and returns
finish(i, status, events) ==
    /\ syncStatus' = status
    /\ sessions' = [sessions EXCEPT ![i] =
            [@ EXCEPT !.pc = "ended", !.result = status, !.log = @ \o events]]

\* performSync() is called: POST /sync with JSON.stringify(schedule)
performSync(i, events) ==
    goOn(i, "submitting", events \o <<"sync">>)

\* window.open(authData.url, 'Google Auth', ...): the window of that name
\* when one is open, else a new one
namedWindow ==
    IF \E w \in DOMAIN windows : windows[w] = "open"
    THEN CHOOSE w \in DOMAIN windows : windows[w] = "open"
    ELSE Len(windows) + 1

\* the window and the timer of session i
startPolling(i) ==
    /\ windows' = IF namedWindow \in DOMAIN windows
                   THEN windows
                   ELSE Append(windows, "open")
    /\ sessions' = [sessions EXCEPT ![i] =
           [@ EXCEPT !.pc = "polling", !.popup = namedWindow,
                     !.log = @ \o <<"open", "timer">>]]
    /\ UNCHANGED syncStatus

\* a handler that asks again for the authorization status when the window
\* was blocked
openPopupThenRecheck(i) ==
    \E blocked \in BOOLEAN :
        IF blocked
        THEN /\ syncStatus' = "popup_blocked"
             /\ goOn(i, "rechecking", <<"blocked", "recheck">>)
             /\ UNCHANGED windows
        ELSE startPolling(i)

\* a handler that submits although the window was blocked
openPopupThenSubmit(i) ==
    \E blocked \in BOOLEAN :
        IF blocked
        THEN /\ syncStatus' = "popup_blocked"
             /\ performSync(i, <<"blocked">>)
             /\ UNCHANGED windows
        ELSE startPolling(i)

\* const popup = window.open(...); if (!popup) {...}; setInterval(...)
openPopup(i) ==
    \E blocked \in BOOLEAN :
        IF blocked
        THEN /\ finish(i, "popup_blocked", <<"blocked">>)
             /\ UNCHANGED windows
        ELSE startPolling(i)

\* a handler that opens the window whenever the body is not authenticated
authStepAlwaysPopup(i, r) ==
    IF r.kind = "transport"
    THEN finish(i, errorStatus(FetchError), <<"auth:failed">>) /\ UNCHANGED windows
    ELSE IF r.kind = "status"
    THEN finish(i, errorStatus(AuthCheckError), <<"auth:failed">>) /\ UNCHANGED windows
    ELSE IF r.kind = "body"
    THEN finish(i, errorStatus(JSONError), <<"auth:failed">>) /\ UNCHANGED windows
    ELSE IF r.body.error # ""
    THEN finish(i, errorStatus(r.body.error), <<"auth:failed">>) /\ UNCHANGED windows
    ELSE IF ~r.body.authenticated
    THEN openPopup(i)
    ELSE performSync(i, <<>>) /\ UNCHANGED <<syncStatus, windows>>

\* a handler that does not read the error field of the body
authStepIgnoringError(i, r) ==
    IF r.kind = "transport"
    THEN finish(i, errorStatus(FetchError), <<"auth:failed">>) /\ UNCHANGED windows
    ELSE IF r.kind = "status"
    THEN finish(i, errorStatus(AuthCheckError), <<"auth:failed">>) /\ UNCHANGED windows
    ELSE IF r.kind = "body"
    THEN finish(i, errorStatus(JSONError), <<"auth:failed">>) /\ UNCHANGED windows
    ELSE IF ~r.body.authenticated /\ r.body.url # ""
    THEN openPopup(i)
    ELSE performSync(i, <<>>) /\ UNCHANGED <<syncStatus, windows>>

\* the continuation of handleSync after the await of fetch, for the answer r
authStep(i, r) ==
    IF r.kind = "transport"
    THEN finish(i, errorStatus(FetchError), <<"auth:failed">>) /\ UNCHANGED windows
    ELSE IF r.kind = "status"
    THEN finish(i, errorStatus(AuthCheckError), <<"auth:failed">>) /\ UNCHANGED windows
    ELSE IF r.kind = "body"
    THEN finish(i, errorStatus(JSONError), <<"auth:failed">>) /\ UNCHANGED windows
    ELSE IF r.body.error # ""
    THEN finish(i, errorStatus(r.body.error), <<"auth:failed">>) /\ UNCHANGED windows
    ELSE IF ~r.body.authenticated /\ r.body.url # ""
    THEN openPopup(i)
    ELSE performSync(i, <<>>) /\ UNCHANGED <<syncStatus, windows>>

\* the first GET /auth/url of a session is answered
AuthResponds ==
    /\ \E i \in DOMAIN sessions :
        /\ sessions[i].pc = "checking"
        /\ \E r \in AuthReplies : authStep(i, r)
    /\ UNCHANGED syncCalls
    /\ UNCHANGED <<pageVars, refVars, loadVars, userVars, normVars, resVars>>

\* the authorization window is closed, by the user or by the page it shows
WindowCloses ==
    /\ \E w \in DOMAIN windows :
        /\ windows[w] = "open"
        /\ windows' = [windows EXCEPT ![w] = "closed"]
    /\ UNCHANGED <<syncStatus, syncCalls, sessions>>
    /\ UNCHANGED <<pageVars, refVars, loadVars, userVars, normVars, resVars>>

\* a callback that leaves its timer running when it finds the window closed
TimerTickKeepsTimer ==
    /\ \E i \in DOMAIN sessions :
        /\ sessions[i].pc = "polling"
        /\ IF windows[sessions[i].popup] = "closed"
           THEN goOn(i, "polling", <<"closed", "recheck">>)
           ELSE UNCHANGED sessions
    /\ UNCHANGED <<syncStatus, syncCalls, windows>>
    /\ UNCHANGED <<pageVars, refVars, loadVars, userVars, normVars, resVars>>

\* the setInterval callback, up to the await of fetch
TimerTick ==
    /\ \E i \in DOMAIN sessions :
        /\ sessions[i].pc = "polling"
        /\ IF windows[sessions[i].popup] = "closed"
           THEN \* clearInterval(timer); fetch(`${API_BASE_URL}/auth/url`)
                goOn(i, "rechecking", <<"closed", "recheck">>)
           ELSE UNCHANGED sessions
    /\ UNCHANGED <<syncStatus, syncCalls, windows>>
    /\ UNCHANGED <<pageVars, refVars, loadVars, userVars, normVars, resVars>>

\* the continuation of the setInterval callback after the await of fetch,
\* for the answer r; nothing catches what it throws
recheckStep(i, r) ==
    IF r.kind \in {"transport", "body"}
    THEN goOn(i, "rejected", <<"recheck:failed">>) /\ UNCHANGED syncStatus
    ELSE IF r.body.authenticated
    THEN /\ syncStatus' = "syncing"
         /\ performSync(i, <<>>)
    ELSE finish(i, "auth_failed", <<>>)

\* the GET /auth/url of the timer callback is answered
RecheckResponds ==
    /\ \E i \in DOMAIN sessions :
        /\ sessions[i].pc = "rechecking"
        /\ \E r \in RecheckReplies : recheckStep(i, r)
    /\ UNCHANGED <<syncCalls, windows>>
    /\ UNCHANGED <<pageVars, refVars, loadVars, userVars, normVars, resVars>>

\* the status performSync sets for an answer to POST /sync
syncOutcome(r) ==
    IF r.kind = "transport" THEN errorStatus(FetchError)
    ELSE IF r.kind = "unauthorized" THEN "auth_needed"
    ELSE IF ~r.json THEN errorStatus(JSONError)
    ELSE IF r.kind = "ok" THEN "success"
    ELSE errorStatus(IF r.detail # "" THEN r.detail ELSE Undefined)

\* the continuation of performSync after the await of fetch, for the answer r
syncStep(i, r) ==
    finish(i, syncOutcome(r), IF r.kind = "ok" THEN <<>> ELSE <<"sync:failed">>)

\* the POST /sync of a session is answered
SyncResponds ==
    /\ \E i \in DOMAIN sessions :
        /\ sessions[i].pc = "submitting"
        /\ \E r \in SyncReplies : syncStep(i, r)
    /\ UNCHANGED <<syncCalls, windows>>
    /\ UNCHANGED <<pageVars, refVars, loadVars, userVars, normVars, resVars>>

(***************************************************************************)
(* normalize applied once and twice to a string                            *)
(***************************************************************************)
\* the page as it is once the bootstrap response has been published
PageLoaded ==
    /\ schedule = Snapshot("21P-0001")
    /\ rollNumber = "21P-0001"
    /\ error = ""
    /\ mounted = TRUE
    /\ cached = NoItem
    /\ cacheSlot = Item(JSONstringify(Snapshot("21P-0001")))
    /\ fpc = "returned"
    /\ retries = InitialRetries
    /\ backoff = InitialBackoff
    /\ requests = 1
    /\ delays = <<>>
    /\ outcomes = <<"ok">>
    /\ entry = "pages"
    /\ gestures = 0
    /\ UserIdle
    /\ SyncIdle

NormInit ==
    /\ PageLoaded
    /\ faculty = <<>>
    /\ metadata = [teachers |-> <<>>]
    /\ ResIdle
    /\ x \in RawStrings
    /\ nx = <<>>
    /\ nnx = <<>>
    /\ npc = "start"

NormalizeOnce ==
    /\ npc = "start"
    /\ nx' = normalize(x)
    /\ npc' = "once"
    /\ UNCHANGED <<x, nnx, resVars, refVars, pageVars, loadVars, userVars, syncVars>>

NormalizeAgain ==
    /\ npc = "once"
    /\ nnx' = normalize(nx)
    /\ npc' = "twice"
    /\ UNCHANGED <<x, nx, resVars, refVars, pageVars, loadVars, userVars, syncVars>>

NormNext == NormalizeOnce \/ NormalizeAgain

SpecNormalize == NormInit /\ [][NormNext]_vars

(***************************************************************************)
(* findFaculty called by the render of one class card                      *)
(***************************************************************************)
ResolverInit ==
    /\ PageLoaded
    /\ faculty \in Directories
    /\ metadata \in {[teachers |-> T] : T \in TeacherLists}
    /\ NormIdle
    /\ teacherName \in TeacherNames
    /\ fac = Null
    /\ pass = "none"
    /\ renderThrew = FALSE
    /\ rpc = "start"

\* const fac = findFaculty(cls.teacher); ... fac.isPlaceholder ...
RenderClassCard ==
    /\ rpc = "start"
    /\ fac' = findFaculty(teacherName, faculty, metadata.teachers)
    /\ pass' = resolve(teacherName, faculty, metadata.teachers).pass
    /\ renderThrew' = (fac' = Null)     \* reading a property of null throws
    /\ rpc' = "rendered"
    /\ UNCHANGED <<teacherName, normVars, refVars, pageVars, loadVars, userVars, syncVars>>

ResolverNext == RenderClassCard

SpecResolver == ResolverInit /\ [][ResolverNext]_vars

(***************************************************************************)
(* findFaculty on queries that a record contains as a substring            *)
(***************************************************************************)
\* the words of the teacher names: one initial and two longer words
SubTokens == { <<"a">>, <<"a","k">>, <<"k","a">> }

SubQueries == {JoinSpace(ts) : ts \in SeqsUpTo(SubTokens, MaxQueryTokens) \ {<<>>}}

\* directory names that contain queries across their word boundaries
SubNames ==
    { <<"B","a","k"," ","K","a","b">>,
      <<"B","a"," ","K","a"," ","K","a","b">>,
      <<"A","k"," ","K","a">> }

SubDirectories ==
    {[i \in DOMAIN ns |-> [name |-> ns[i]]] : ns \in SeqsUpTo(SubNames, MaxDir)}

SubstringInit ==
    /\ PageLoaded
    /\ faculty \in SubDirectories
    /\ metadata = [teachers |-> <<>>]
    /\ NormIdle
    /\ teacherName \in SubQueries
    /\ fac = Null
    /\ pass = "none"
    /\ renderThrew = FALSE
    /\ rpc = "start"

SpecSubstring == SubstringInit /\ [][ResolverNext]_vars

(***************************************************************************)
(* The page with every operation                                           *)
(***************************************************************************)
PageGestures == 1     \* gestures of the user in a run that starts at the mount

\* the teacher of the class card the page renders
PageTeachers == { <<"A", "k">> }

\* the texts the slot starts with: unparseable, 'null', and a schedule
PageSlotTexts == {"{bad", JSONstringify(Null), JSONstringify(Snapshot("21P-0001"))}

\* the page before the mount effect has run, with a user about to act
PageStart ==
    /\ PageInit
    /\ cacheSlot \in {NoItem} \cup {Item(t) : t \in PageSlotTexts}
    /\ entry \in Entries
    /\ gestures = PageGestures
    /\ UserIdle
    /\ SyncIdle
    /\ NormIdle
    /\ teacherName \in PageTeachers
    /\ fac = Null
    /\ pass = "none"
    /\ renderThrew = FALSE
    /\ rpc = "start"

\* {schedule && (...)}: the class card is rendered once a schedule is displayed
RenderRow ==
    /\ mounted
    /\ schedule # Null
    /\ RenderClassCard

PageNext ==
    \/ Mount
    \/ FetchSucceeds
    \/ FetchFails
    \/ BackoffElapses
    \/ TypeRollNumber
    \/ ClickExtract
    \/ PressEnter
    \/ ParseSucceeds
    \/ ParseFails
    \/ ClickClear
    \/ ClickLogo
    \/ handleDownloadICS
    \/ DownloadResponds
    \/ handleSync
    \/ AuthResponds
    \/ WindowCloses
    \/ TimerTick
    \/ RecheckResponds
    \/ SyncResponds
    \/ RenderRow

SpecPage == PageStart /\ [][PageNext]_vars

(***************************************************************************)
(* Sync sessions on a page that has loaded                                 *)
(***************************************************************************)
SyncGestures == 2     \* gestures of the user in a run that starts on the loaded page

\* frontend/pages/index.js once the mount effect and the bootstrap are done,
\* with the schedule of the cache displayed, or none
SyncInit ==
    /\ schedule \in {Null, Snapshot("21P-0001")}
    /\ cacheSlot = IF schedule = Null THEN NoItem ELSE Item(JSONstringify(schedule))
    /\ cached = cacheSlot
    /\ rollNumber = IF schedule = Null THEN "" ELSE schedule.roll_number
    /\ error = ""
    /\ mounted = TRUE
    /\ faculty = <<>>
    /\ metadata = [teachers |-> <<>>]
    /\ fpc = "returned"
    /\ retries = InitialRetries
    /\ backoff = InitialBackoff
    /\ requests = 1
    /\ delays = <<>>
    /\ outcomes = <<"ok">>
    /\ entry = "frontend"
    /\ gestures = SyncGestures
    /\ UserIdle
    /\ SyncIdle
    /\ NormIdle
    /\ ResIdle

SyncNext ==
    \/ handleSync
    \/ AuthResponds
    \/ WindowCloses
    \/ TimerTick
    \/ RecheckResponds
    \/ SyncResponds
    \/ ClickClear
    \/ ClickExtract
    \/ ParseSucceeds
    \/ ParseFails

SpecSync == SyncInit /\ [][SyncNext]_vars

(***************************************************************************)
(* The user's extractions and resets on the page as it loads               *)
(***************************************************************************)
UserGestures == 4     \* gestures of the user in a run of extractions and resets

\* the page before the mount effect has run, with a user about to act
UserInit ==
    /\ PageInit
    /\ cacheSlot \in {NoItem} \cup {Item(t) : t \in PageSlotTexts}
    /\ entry \in Entries
    /\ gestures = UserGestures
    /\ UserIdle
    /\ SyncIdle
    /\ NormIdle
    /\ ResIdle

\* the startup load and the bootstrap loader, the roll number input, the
\* Search / Extract button, the Enter key, the answers to POST /parse, Clear
\* and the logo link
UserNext ==
    \/ Mount
    \/ FetchSucceeds
    \/ FetchFails
    \/ BackoffElapses
    \/ TypeRollNumber
    \/ ClickExtract
    \/ PressEnter
    \/ ParseSucceeds
    \/ ParseFails
    \/ ClickClear
    \/ ClickLogo

SpecUser == UserInit /\ [][UserNext]_vars

(***************************************************************************)
(* Properties                                                              *)
(***************************************************************************)
Min(S) == CHOOSE i \in S : \A j \in S : i <= j

\* the query of the rendered row, as findFaculty sees it
Query      == normalize(teacherName)
QueryParts == nonEmptyParts(split(Query))

\* the directory indexes whose normalized name equals the query
ExactHits == {i \in DOMAIN faculty : normalize(faculty[i].name) = Query}

\* the token rule, stated on sets: how many of the query tokens (counted by
\* position) the record named name matches
MatchedOf(parts, name) ==
    LET fn      == normalize(name)
        fnParts == split(fn)
    IN  Cardinality({j \in DOMAIN parts :
            IF Len(parts[j]) = 1
            THEN \E k \in DOMAIN fnParts : startsWith(fnParts[k], parts[j])
            ELSE \/ \E k \in DOMAIN fnParts : fnParts[k] = parts[j]
                 \/ includes(fn, parts[j])})

Matched(i) == MatchedOf(QueryParts, faculty[i].name)
Total      == Len(QueryParts)

\* the acceptance rule of the token pass, stated on the counts
AcceptedCounts(m, n) ==
    \/ m = n
    \/ m >= 2 /\ 10 * m >= 7 * n

Accepted(i) == AcceptedCounts(Matched(i), Total)

TokenHits ==
    LET parts == QueryParts
    IN  {i \in DOMAIN faculty :
            AcceptedCounts(MatchedOf(parts, faculty[i].name), Len(parts))}

\* the token pass ran: the query is not empty and no record matched exactly
TokenPassRan == rpc = "rendered" /\ pass \in {"token", "substring", "placeholder"}

\* C1: normalize(normalize(x)) = normalize(x) for every input string x
C1_NormalizeIdempotent == npc = "twice" => nnx = nx

\* C2: a fetchWithRetry call issues at most 4 requests, stops at the first
\* attempt that succeeds, retries after every failed attempt while fewer
\* than 4 attempts were made, throws only after the 4th attempt failed, and
\* always ends by returning or throwing
C2_Attempts ==
    /\ requests <= 4
    /\ Len(outcomes) <= requests
    /\ \A k \in DOMAIN outcomes : outcomes[k] = "ok" => k = Len(outcomes)
    /\ (fpc = "returned") <=>
            (outcomes # <<>> /\ outcomes[Len(outcomes)] = "ok" /\ Len(outcomes) = requests)
    /\ (fpc = "thrown") <=>
            (Len(outcomes) = 4 /\ \A k \in DOMAIN outcomes : outcomes[k] # "ok")
    /\ (outcomes # <<>> /\ outcomes[Len(outcomes)] # "ok" /\ Len(outcomes) < 4)
            => (fpc \in {"waiting", "fetching"} /\ requests >= Len(outcomes))

C2_BoundedRetry == [] C2_Attempts /\ <>(fpc \in {"returned", "thrown"})

C2_Witness == fpc = "thrown" /\ requests = 4

\* C3: the delay before the k-th retry is 1000, 1500, 2250 for k = 1, 2, 3;
\* every retry is preceded by its delay and no delay follows a success or
\* the final failure
C3_BackoffDelays ==
    /\ Len(delays) <= 3
    /\ \A k \in DOMAIN delays : delays[k] = <<1000, 1500, 2250>>[k]
    /\ fpc = "waiting" => Len(delays) = requests
    /\ fpc \in {"fetching", "returned", "thrown"} => Len(delays) = requests - 1

C3_Witness == fpc = "returned" /\ delays = <<1000, 1500>> /\ requests = 3

\* C4: when the (non-empty) normalized query equals the normalized name of
\* some record, findFaculty returns the first such record in directory order
C4_ExactMatchPrecedence ==
    (rpc = "rendered" /\ Query # <<>> /\ ExactHits # {})
        => (fac.kind = "record" /\ fac.index = Min(ExactHits))

\* the exact match is the second record and the first one passes the token rule
C4_Witness ==
    /\ rpc = "rendered"
    /\ ExactHits # {}
    /\ Min(ExactHits) = 2
    /\ Accepted(1)
    /\ pass = "exact" /\ fac.kind = "record" /\ fac.index = 2

\* the substring fallback is what returns the record
SubstringPassReached == rpc = "rendered" /\ pass = "substring"

\* C5: when no record matches exactly and two or more records pass the token
\* rule, findFaculty returns the earliest of them in directory order
C5_FirstMatchPolicy ==
    (TokenPassRan /\ Cardinality(TokenHits) >= 2)
        => (fac.kind = "record" /\ fac.index = Min(TokenHits))

\* the record returned has a lower matched count than a later accepted one
C5_Witness ==
    /\ TokenPassRan
    /\ Cardinality(TokenHits) >= 2
    /\ fac.kind = "record" /\ fac.index = Min(TokenHits)
    /\ \E j \in TokenHits : Matched(j) > Matched(fac.index)

\* C6: the token pass does not accept a record with 2 of 3 tokens matched,
\* accepts a record with 3 of 4, and accepts a record with exactly 1 token
\* matched only when the query has exactly 1 token
C6_ThresholdBoundary ==
    TokenPassRan =>
        \A i \in DOMAIN faculty :
            /\ (Matched(i) = 2 /\ Total = 3) => ~(pass = "token" /\ fac.index = i)
            /\ (Matched(i) = 3 /\ Total = 4) => (pass = "token" /\ fac.index <= i)
            /\ (Matched(i) = 1 /\ pass = "token" /\ fac.index = i) => Total = 1

\* every record has 2 of 3 tokens matched and none is returned
C6_Witness ==
    /\ TokenPassRan
    /\ faculty # <<>>
    /\ \A i \in DOMAIN faculty : Matched(i) = 2 /\ Total = 3
    /\ pass = "placeholder"

\* a record with 3 of 4 tokens matched is returned by the token pass
C6_WitnessAccept ==
    /\ TokenPassRan
    /\ pass = "token"
    /\ Matched(fac.index) = 3 /\ Total = 4

\* C7: with the per-record count being the number of query tokens matched
\* under the token rule (a one-letter token matches when a record token
\* starts with it, a longer token when a record token equals it or the
\* normalized name contains it), the token pass returns the first record
\* whose count is accepted, and nothing when no count is accepted
C7_TokenRule ==
    TokenPassRan =>
        IF TokenHits = {} THEN pass # "token"
        ELSE pass = "token" /\ fac.kind = "record" /\ fac.index = Min(TokenHits)

\* 'A. K' against 'Ak Ka': the initial and the exact token give 2 of 2
C7_Witness ==
    /\ TokenPassRan
    /\ teacherName = <<"A", ".", " ", "K">>
    /\ faculty # <<>> /\ faculty[1].name = <<"A","k"," ","K","a">>
    /\ Matched(1) = 2 /\ Total = 2
    /\ pass = "token" /\ fac.index = 1

\* C8 as stated: the placeholder's designation is 'Faculty' exactly when the
\* normalized input equals some entry of metadata.teachers
C8_PlaceholderRawEntry ==
    (rpc = "rendered" /\ pass = "placeholder") =>
        /\ fac.isPlaceholder = TRUE
        /\ fac.name = teacherName
        /\ fac.department = "University Faculty"
        /\ fac.designation =
              IF \E k \in DOMAIN metadata.teachers : metadata.teachers[k] = Query
              THEN "Faculty" ELSE "Instructor"

\* C8 amended: the placeholder's designation is 'Faculty' exactly when the
\* normalized input equals the normalized form of some entry of
\* metadata.teachers
C8_PlaceholderFallback ==
    (rpc = "rendered" /\ pass = "placeholder") =>
        /\ fac.isPlaceholder = TRUE
        /\ fac.name = teacherName
        /\ fac.department = "University Faculty"
        /\ fac.designation =
              IF \E k \in DOMAIN metadata.teachers :
                    normalize(metadata.teachers[k]) = Query
              THEN "Faculty" ELSE "Instructor"

\* a placeholder made 'Faculty' by an entry that differs from the query as written
C8_Witness ==
    /\ rpc = "rendered" /\ pass = "placeholder"
    /\ fac.designation = "Faculty"
    /\ fac.name # Query
    /\ \A k \in DOMAIN metadata.teachers : metadata.teachers[k] # Query

\* C9: findFaculty yields a directory record or a placeholder for every
\* teacher name of a schedule row, and the render of the row does not throw
C9_ResolverNeverErrors ==
    rpc = "rendered" => (fac.kind \in {"record", "placeholder"} /\ ~renderThrew)

\* C10: a startup load that finds unparseable text in the slot leaves no
\* schedule displayed, the slot cleared and no error message
C10_CacheSelfHeal ==
    [][(~mounted /\ mounted' /\ cacheSlot \in {Item(t) : t \in CorruptTexts})
         => (schedule' = Null /\ cacheSlot' = NoItem /\ error' = "")]_vars

C10_Witness ==
    /\ mounted
    /\ cached = Item("{bad")
    /\ cacheSlot = NoItem
    /\ schedule = Null
    /\ error = ""

\* the slot holds text the startup load treats as corrupt
SlotCorrupt ==
    /\ cacheSlot # NoItem
    /\ cacheSlot # Item("")
    /\ LET parsed == JSONparse(cacheSlot[1])
       IN  ~parsed.ok \/ parsed.value = Null

\* C11: a step changes the cache slot only when it is a successful extraction
\* (the slot then holds exactly the schedule of that response), the startup
\* load finding corrupt text (the slot is cleared) or a reset by the user (the
\* slot is cleared); a failed extraction, a validation failure, the bootstrap
\* load, a resolve, a download and every step of a sync session leave it as
\* it is
C11_CacheWriters ==
    [][cacheSlot' # cacheSlot =>
        /\ \/ ParseSucceeds /\ cacheSlot' = Item(JSONstringify(schedule'))
           \/ Mount /\ SlotCorrupt /\ cacheSlot' = NoItem
           \/ (ClickClear \/ ClickLogo) /\ cacheSlot' = NoItem
        /\ ~( \/ ParseFails \/ ClickExtract \/ PressEnter \/ TypeRollNumber
              \/ FetchSucceeds \/ FetchFails \/ BackoffElapses
              \/ RenderRow \/ handleDownloadICS \/ DownloadResponds
              \/ handleSync \/ AuthResponds \/ WindowCloses \/ TimerTick
              \/ RecheckResponds \/ SyncResponds )]_vars

\* an extraction has replaced the schedule the mount found in the slot
C11_Witness ==
    /\ mounted
    /\ cached = Item(JSONstringify(Snapshot("21P-0001")))
    /\ cacheSlot = Item(JSONstringify(Snapshot("22P-0002")))
    /\ schedule = Snapshot("22P-0002")
    /\ parses = 0

\* C12: the step in which the last attempt of the bootstrap load fails, four
\* attempts having failed, sets the connection error message and leaves the
\* cache slot and the displayed schedule as they are
C12_BootstrapFailureFrame ==
    [][(fpc = "fetching" /\ fpc' = "thrown")
         => /\ Len(outcomes') = InitialRetries + 1
            /\ \A k \in DOMAIN outcomes' : outcomes'[k] \in FailureKinds
            /\ error' = ConnectError
            /\ error' # ""
            /\ cacheSlot' = cacheSlot
            /\ schedule' = schedule]_vars

\* the bootstrap load has failed for good under a schedule restored from the cache
C12_Witness ==
    /\ fpc = "thrown"
    /\ error = ConnectError
    /\ schedule # Null
    /\ cached = Item(JSONstringify(schedule))
    /\ cacheSlot = cached

\* the statuses a sync session ends in
ErrorMessages ==
    {FetchError, AuthCheckError, JSONError, AuthBodyError, SyncDetail, Undefined}

ErrorStatuses    == {errorStatus(m) : m \in ErrorMessages}
FailedStatuses   == {"auth_needed", "auth_failed", "popup_blocked"} \cup ErrorStatuses
TerminalStatuses == FailedStatuses \cup {"success"}

\* the log holds the event e
Has(log, e) == \E k \in DOMAIN log : log[k] = e

\* the network requests a log records
Requests(log) == {k \in DOMAIN log : log[k] \in {"auth", "recheck", "sync"}}

\* C13: a call of handleSync made while no schedule is displayed changes
\* neither the sync status nor the sessions nor the windows: no request is
\* sent, no window is opened and no timer is started
C13_SyncWithoutSchedule ==
    [][(handleSync /\ schedule = Null)
         => UNCHANGED <<syncStatus, sessions, windows>>]_vars

\* handleSync has been called without a schedule
C13_Witness ==
    /\ syncCalls > 0
    /\ schedule = Null
    /\ sessions = <<>>
    /\ syncStatus = ""
    /\ windows = <<>>

\* the first authorization check failed: transport, status, or an error field
AuthFailed(r) ==
    \/ r.kind \in {"transport", "status"}
    \/ r.kind = "ok" /\ r.body.error # ""

\* C14: a session that awaits its first authorization-status answer has sent
\* that one request and nothing else; when the request fails the session ends
\* in a Failed state with no window opened and nothing submitted; when it reports
\* authenticated = true the session submits without opening a window; when it
\* reports authenticated = false with a URL the session calls window.open
C14_CheckingAuth ==
    [][\A i \in DOMAIN sessions : \A r \in AuthReplies :
        (sessions[i].pc = "checking" /\ authStep(i, r)) =>
            /\ sessions[i].log = <<"auth">>
            /\ AuthFailed(r) =>
                /\ sessions'[i].pc = "ended"
                /\ sessions'[i].result \in FailedStatuses
                /\ syncStatus' = sessions'[i].result
                /\ Requests(sessions'[i].log) = {1}
                /\ ~Has(sessions'[i].log, "open")
                /\ ~Has(sessions'[i].log, "blocked")
                /\ windows' = windows
            /\ (r.kind = "ok" /\ r.body.error = "" /\ r.body.authenticated) =>
                /\ sessions'[i].pc = "submitting"
                /\ sessions'[i].log = <<"auth", "sync">>
                /\ windows' = windows
            /\ (r.kind = "ok" /\ r.body.error = "" /\ ~r.body.authenticated
                    /\ r.body.url # "") =>
                \/ /\ sessions'[i].log = <<"auth", "open", "timer">>
                   /\ sessions'[i].popup \in DOMAIN windows'
                   /\ windows'[sessions'[i].popup] = "open"
                \/ sessions'[i].log = <<"auth", "blocked">>]_vars

\* one session failed at its check, another opened the window
C14_Witness ==
    /\ \E i \in DOMAIN sessions : sessions[i].log = <<"auth", "auth:failed">>
    /\ \E i \in DOMAIN sessions :
        /\ sessions[i].log = <<"auth", "open", "timer">>
        /\ windows[sessions[i].popup] = "open"

\* C15 as written: a session whose window was blocked has ended in
\* popup_blocked and has sent no network request at all
C15_PopupBlockedZeroCalls ==
    \A i \in DOMAIN sessions :
        Has(sessions[i].log, "blocked") =>
            /\ sessions[i].pc = "ended"
            /\ sessions[i].result = "popup_blocked"
            /\ Requests(sessions[i].log) = {}

\* C15: a session whose window was blocked has ended in popup_blocked, and
\* the authorization check that preceded window.open is the only network
\* request it has sent
C15_PopupBlocked ==
    \A i \in DOMAIN sessions :
        Has(sessions[i].log, "blocked") =>
            /\ sessions[i].pc = "ended"
            /\ sessions[i].result = "popup_blocked"
            /\ sessions[i].log = <<"auth", "blocked">>

\* the window of a session was blocked
C15_Witness ==
    \E i \in DOMAIN sessions :
        /\ Has(sessions[i].log, "blocked")
        /\ syncStatus = "popup_blocked"

\* C16: the tick that sees the window closed sends the follow-up request; when
\* its answer reports authenticated the session submits, with the status
\* 'syncing'; in every other case it ends in auth_failed having submitted
\* nothing
C16_FollowUpCheck ==
    [][\A i \in DOMAIN sessions :
        /\ (sessions[i].pc = "polling" /\ sessions'[i].pc # "polling") =>
                /\ windows[sessions[i].popup] = "closed"
                /\ sessions'[i].pc = "rechecking"
                /\ sessions'[i].log = sessions[i].log \o <<"closed", "recheck">>
        /\ \A r \in RecheckReplies :
            (sessions[i].pc = "rechecking" /\ recheckStep(i, r)) =>
                IF r.kind = "answer" /\ r.body.authenticated
                THEN /\ sessions'[i].pc = "submitting"
                     /\ syncStatus' = "syncing"
                ELSE /\ sessions'[i].pc = "ended"
                     /\ sessions'[i].result = "auth_failed"
                     /\ ~Has(sessions'[i].log, "sync")]_vars

\* C17: a 401 answer to the submission ends the session in auth_needed, any
\* other answer that is not a success in the error status with the detail of
\* the body, a success in 'success', and the session ends in no other status
C17_SyncOutcomes ==
    [][\A i \in DOMAIN sessions : \A r \in SyncReplies :
        (sessions[i].pc = "submitting" /\ syncStep(i, r)) =>
            /\ sessions'[i].pc = "ended"
            /\ sessions'[i].result \in {"auth_needed", "success"} \cup ErrorStatuses
            /\ r.kind = "unauthorized" => sessions'[i].result = "auth_needed"
            /\ (r.kind = "status" /\ r.json /\ r.detail # "") =>
                    sessions'[i].result = errorStatus(r.detail)
            /\ r.kind = "status" => sessions'[i].result \in ErrorStatuses
            /\ r.kind = "ok" => sessions'[i].result = "success"]_vars

\* a request of the session has failed
HasFailure(log) ==
    \E k \in DOMAIN log : log[k] \in {"auth:failed", "recheck:failed", "sync:failed"}

\* C18: a session one of whose requests has failed has ended in a Failed status
C18_FailuresReported ==
    \A i \in DOMAIN sessions :
        HasFailure(sessions[i].log) =>
            /\ sessions[i].pc = "ended"
            /\ sessions[i].result \in FailedStatuses

\* C19: a step that changes a terminal sync status is a call of handleSync
C19_TerminalStatus ==
    [][(syncStatus \in TerminalStatuses /\ syncStatus' # syncStatus) => handleSync]_vars

\* the sessions that still have a request in flight or a timer running
Live == {i \in DOMAIN sessions : sessions[i].pc \in {"checking", "polling", "rechecking", "submitting"}}

\* C20: at most one session is live
C20_OneLiveSession == Cardinality(Live) <= 1

\* C21: a step changes the faculty directory or the teacher metadata only
\* when it is the answer to the bootstrap request that succeeds, no earlier
\* answer having succeeded; after a successful answer no further answer
\* arrives, and no operation of the user, no extraction response, no render of
\* findFaculty, no download and no step of a sync session changes them
C21_ReferenceSetWrittenOnce ==
    [][/\ refVars' # refVars =>
            /\ FetchSucceeds
            /\ ~Has(outcomes, "ok")
            /\ ~( \/ Mount \/ FetchFails \/ BackoffElapses
                  \/ TypeRollNumber \/ ClickExtract \/ PressEnter
                  \/ ParseSucceeds \/ ParseFails \/ ClickClear \/ ClickLogo
                  \/ RenderRow \/ handleDownloadICS \/ DownloadResponds
                  \/ handleSync \/ AuthResponds \/ WindowCloses \/ TimerTick
                  \/ RecheckResponds \/ SyncResponds )
       /\ Has(outcomes, "ok") => outcomes' = outcomes /\ fpc' = "returned"]_vars

\* the directory and the metadata have been published, and the user has
\* acted and findFaculty has run on them since
C21_Witness ==
    /\ faculty # <<>>
    /\ metadata.teachers # <<>>
    /\ Has(outcomes, "ok")
    /\ gestures < PageGestures
    /\ rpc = "rendered"

\* the rejection of POST /parse with a status that is not ok and a body
\* that carries a detail
DetailRejection == [kind |-> "status", detail |-> ParseDetail]

\* C22: the step that handles an extraction rejected with a detail sets the
\* error message to that detail as the server sent it, leaves no schedule
\* displayed and resets loading
C22_RejectionShowsDetail ==
    [][(parses > 0 /\ ParseFails /\ error' = parseErrorMessage(DetailRejection))
         => /\ error' = ParseDetail
            /\ schedule' = Null
            /\ loading' = FALSE]_vars

\* C23: in the step in which a session calls performSync, the schedule it
\* serializes into the body of POST /sync is the schedule displayed then
C23_SubmitsDisplayedSchedule ==
    [][\A i \in DOMAIN sessions :
        (sessions[i].pc # "submitting" /\ sessions'[i].pc = "submitting")
            => JSONstringify(sessions'[i].schedule) = JSONstringify(schedule')]_vars

\* C24: the step in which window.open returns nothing sets the status
\* popup_blocked and ends the session, which has opened no window and started
\* no timer; from then on the session stays as it is: it sends no request and
\* starts no timer
C24_PopupBlockedEnds ==
    [][\A i \in DOMAIN sessions :
        /\ (~Has(sessions[i].log, "blocked") /\ Has(sessions'[i].log, "blocked"))
            => /\ syncStatus' = "popup_blocked"
               /\ sessions'[i] = [sessions[i] EXCEPT !.pc = "ended",
                                                     !.result = "popup_blocked",
                                                     !.log = @ \o <<"blocked">>]
               /\ ~Has(sessions'[i].log, "timer")
               /\ windows' = windows
        /\ Has(sessions[i].log, "blocked") => sessions'[i] = sessions[i]]_vars

\* a session was blocked, and a later session has run to its end since
C24_Witness ==
    /\ Len(sessions) = 2
    /\ sessions[1].result = "popup_blocked"
    /\ sessions[1].pc = "ended"
    /\ sessions[2].result = "success"
    /\ syncStatus = "success"

\* how often a session has done e
Count(log, e) == Cardinality({k \in DOMAIN log : log[k] = e})

\* C25: a session that polls has sent nothing since it started its timer,
\* and a step changes it only when its window is closed: the step then stops
\* the timer and sends the follow-up request, and changes no status; so no
\* session whose timer runs has sent a follow-up request, and every session
\* sends at most one follow-up request (exactly one once it has seen the
\* window closed) and at most one sync submission
C25_PollOnce ==
    [][\A i \in DOMAIN sessions :
        /\ sessions[i].pc = "polling" => sessions[i].log = <<"auth", "open", "timer">>
        /\ (sessions[i].pc = "polling" /\ sessions'[i] # sessions[i])
            => /\ windows[sessions[i].popup] = "closed"
               /\ sessions'[i] = [sessions[i] EXCEPT !.pc = "rechecking",
                                                     !.log = @ \o <<"closed", "recheck">>]
               /\ syncStatus' = syncStatus
        /\ sessions'[i].pc = "polling" => ~Has(sessions'[i].log, "recheck")
        /\ Count(sessions'[i].log, "recheck") =
               (IF Has(sessions'[i].log, "closed") THEN 1 ELSE 0)
        /\ Count(sessions'[i].log, "sync") <= 1]_vars

\* a session has polled, seen its window closed, asked once and submitted once
C25_Witness ==
    \E i \in DOMAIN sessions :
        /\ sessions[i].log = <<"auth", "open", "timer", "closed", "recheck", "sync">>
        /\ sessions[i].result = "success"
        /\ windows[sessions[i].popup] = "closed"

\* the body of GET /auth/url that is not authenticated and carries neither a
\* URL nor an error
NoUrlBody == [authenticated |-> FALSE, url |-> "", error |-> ""]

\* C28: the step that handles a first answer with that body opens no window,
\* starts no timer and sets no status, and sends POST /sync at once; the
\* session then ends in the status the answer to that submission yields
C28_NoUrlSubmits ==
    [][\A i \in DOMAIN sessions :
        /\ (sessions[i].pc = "checking" /\ authStep(i, [kind |-> "ok", body |-> NoUrlBody]))
            => /\ sessions'[i] = [sessions[i] EXCEPT !.pc = "submitting",
                                                     !.log = <<"auth", "sync">>]
               /\ windows' = windows
               /\ syncStatus' = syncStatus
        /\ (sessions[i].log = <<"auth", "sync">> /\ sessions'[i] # sessions[i])
            => \E r \in SyncReplies :
                /\ sessions'[i].pc = "ended"
                /\ sessions'[i].result = syncOutcome(r)
                /\ syncStatus' = syncOutcome(r)
                /\ ~Has(sessions'[i].log, "open")
                /\ ~Has(sessions'[i].log, "timer")]_vars

\* a session has submitted without a window and was told to authorize
C28_Witness ==
    \E i \in DOMAIN sessions :
        /\ sessions[i].pc = "ended"
        /\ sessions[i].log = <<"auth", "sync", "sync:failed">>
        /\ sessions[i].popup = 0
        /\ sessions[i].result = "auth_needed"
        /\ windows = <<>>

\* C26: whenever a schedule is displayed, the cache slot holds the text that
\* JSON.stringify gives for that schedule
C26_DisplayedIsCached ==
    schedule # Null => cacheSlot = Item(JSONstringify(schedule))

\* a schedule other than the one the startup load restored is displayed
\* while another extraction is still pending
C26_Witness ==
    /\ schedule # Null
    /\ cached # NoItem
    /\ cached # Item(JSONstringify(schedule))
    /\ cacheSlot = Item(JSONstringify(schedule))
    /\ parses > 0

\* C27: at most one POST /parse is pending, and loading is true exactly
\* while one is pending
C27_OneExtraction ==
    /\ parses <= 1
    /\ loading <=> parses > 0

\* what findFaculty returns for the rendered row when its substring pass
\* (with the length guard) is left out
WithoutSubstringPass ==
    LET exact == find({i \in DOMAIN faculty : exactMatch(faculty[i], Query)})
        token == find({i \in DOMAIN faculty : tokenMatch(faculty[i], QueryParts)})
    IN  IF exact # 0 THEN directoryRecord(faculty, exact)
        ELSE IF token # 0 THEN directoryRecord(faculty, token)
        ELSE placeholder(teacherName, isKnown(metadata.teachers, Query))

\* every token of the query has two letters or more
LongTokensOnly ==
    /\ QueryParts # <<>>
    /\ \A j \in DOMAIN QueryParts : Len(QueryParts[j]) >= 2

\* C29: for a query whose tokens all have two letters or more, every record
\* whose normalized name contains the normalized query passes the token rule,
\* the substring pass returns nothing, and findFaculty returns what it
\* returns without the substring pass
C29_SubstringPassRedundant ==
    (rpc = "rendered" /\ LongTokensOnly) =>
        /\ \A i \in DOMAIN faculty :
              substringMatch(faculty[i], Query) => tokenMatch(faculty[i], QueryParts)
        /\ pass # "substring"
        /\ fac = WithoutSubstringPass

\* a query longer than the length guard is contained in a record across the
\* record's word boundaries, and the token pass has returned that record
C29_Witness ==
    /\ rpc = "rendered"
    /\ LongTokensOnly
    /\ Len(Query) > SubstringMinLen
    /\ pass = "token"
    /\ fac.kind = "record"
    /\ substringMatch(faculty[fac.index], Query)
    /\ \E j \in DOMAIN QueryParts :
          \A k \in DOMAIN split(normalize(faculty[fac.index].name)) :
              split(normalize(faculty[fac.index].name))[k] # QueryParts[j]

\* the last attempt of the loader failed on the body of a success response
BodyFailedLast == outcomes # <<>> /\ outcomes[Len(outcomes)] = "body"

\* C30: an attempt whose success response has a body that cannot be parsed
\* publishes nothing and is handled as a failed attempt: with a retry left
\* the loader waits the current backoff, and the retry that follows uses up
\* one retry, lengthens the backoff and sends one more request; with none
\* left the load fails. The directory and the metadata change only in the
\* step of an attempt whose body parsed
C30_UnparseableBodyRetries ==
    [][/\ (fpc = "fetching" /\ outcomes' = Append(outcomes, "body"))
            => /\ refVars' = refVars
               /\ retries' = retries /\ backoff' = backoff /\ requests' = requests
               /\ IF retries > 0
                  THEN /\ fpc' = "waiting"
                       /\ delays' = Append(delays, backoff)
                       /\ error' = error
                  ELSE /\ fpc' = "thrown"
                       /\ delays' = delays
                       /\ error' = ConnectError
       /\ (fpc = "waiting" /\ BodyFailedLast /\ fpc' # "waiting")
            => /\ fpc' = "fetching"
               /\ retries' = retries - 1
               /\ backoff' = nextBackoff(backoff)
               /\ requests' = requests + 1
               /\ delays[Len(delays)] = backoff
       /\ refVars' # refVars => outcomes' = Append(outcomes, "ok")]_vars

\* the first response had a body that could not be parsed, the loader waited
\* the first backoff, and the retry delivered the directory
C30_Witness ==
    /\ outcomes = <<"body", "ok">>
    /\ delays = <<InitialBackoff>>
    /\ retries = InitialRetries - 1
    /\ requests = 2
    /\ fpc = "returned"
    /\ faculty # <<>>

====
